---- MODULE Spec2Model ----
(***************************************************************************)
(* Model of gui/src/components/loaders/IndexingProgressBar.tsx: the React  *)
(* component that shows the state of the codebase-indexing job and posts   *)
(* setPaused / forceReIndex requests to the IDE.                           *)
(*                                                                         *)
(* One step of the model is one event handled by the component, together   *)
(* with the re-render it schedules and the effects that run after that     *)
(* render.  JavaScript values that are boolean-or-undefined are the        *)
(* strings "undefined", "true", "false".  progress is a fixed-point number *)
(* with Scale units per 1.0; fillPercentage keeps that scale.              *)
(***************************************************************************)
EXTENDS Integers, Sequences, FiniteSets, TLC

\* ------------------------------------------------------------------ bounds
\* fixed-point denominator for progress (progress = p / Scale)
Scale == 1000

\* the progress values the host sends, in 1/Scale
ProgressSamples == {-200, 0, 370, 1000, 1400}

\* cap on the number of index/indexingProgressBarInitialized posts counted
MaxInitSent == 3

Statuses == {"loading", "indexing", "paused", "done", "failed", "disabled", "unknown"}

\* the desc of a host update (the default state has "")
Descs == {"Indexing src"}

OptBool == {"undefined", "true", "false"}

\* IndexingProgressUpdate (core): status, progress, desc, shouldClearIndexes?
Updates ==
  [status : Statuses, progress : ProgressSamples, desc : Descs,
   shouldClearIndexes : OptBool]

VARIABLES
  indexingStateProp,  \* the prop: <<>> when undefined, <<u>> otherwise
  paused,             \* useState<boolean | undefined>(undefined)
  hovered,            \* useState(false)
  initialized,        \* the `let initialized` of the last render's closure
  showDialog,         \* uiState.showDialog (redux)
  jetbrains,          \* isJetBrains()
  pointerOver,        \* the pointer is over the indicator row
  view,               \* what the last render returned
  sent,               \* the requests posted while handling the last event
  initSent,           \* number of indexingProgressBarInitialized posts
  lastEvent,          \* the last event handled
  lastRequest         \* the most recent request posted (action and payload)

vars == <<indexingStateProp, paused, hovered, initialized, showDialog,
          jetbrains, pointerOver, view, sent, initSent, lastEvent,
          lastRequest>>

\* ----------------------------------------------------------- JS helpers
Min(a, b) == IF a < b THEN a ELSE b
Max(a, b) == IF a > b THEN a ELSE b

\* JS truthiness of a boolean | undefined
Truthy(v) == v = "true"

\* JS `!prev`
Not_UnsetToFalse(prev) ==
  IF prev = "undefined" THEN "false"
  ELSE IF Truthy(prev) THEN "false" ELSE "true"

Not(prev) == IF Truthy(prev) THEN "false" ELSE "true"

\* Math.trunc(x / Scale) for a fixed-point x: rounds toward zero
Trunc(x) == IF x >= 0 THEN x \div Scale ELSE -((-x) \div Scale)

\* ideMessenger.post(action, payload), tagged with the code that posted it
Post(action, payload, from) ==
  [action |-> action, payload |-> payload, from |-> from]

\* ------------------------------------------------------------ the render
defaultIndexingState ==
  [status |-> "loading", progress |-> 0, desc |-> "",
   shouldClearIndexes |-> "undefined"]

\* const indexingState = indexingStateProp || defaultIndexingState
indexingStateOf(prop) == IF prop = <<>> THEN defaultIndexingState ELSE prop[1]

indexingState == indexingStateOf(indexingStateProp)

\* Math.min(100, Math.max(0, progress * 100)), in 1/Scale percent
fillPercentage_Unclamped(u) == u.progress * 100

fillPercentage(u) == Min(100 * Scale, Max(0, u.progress * 100))

\* Math.trunc(progress * 100)
percentLabel(u) == Trunc(u.progress * 100)

\* the chain of conditional expressions of the returned JSX
Display_IntentFirst(u, p) ==
  IF u.status = "paused" \/ Truthy(p) THEN "Paused"
  ELSE IF u.status = "failed" THEN "Failed"
  ELSE IF u.status = "loading" THEN "Loading"
  ELSE IF u.status = "done" THEN "Done"
  ELSE IF u.status = "disabled" THEN "Disabled"
  ELSE IF u.status = "indexing" THEN "Indexing"
  ELSE "Nothing"

Display_AnyIntent(u, p) ==
  IF u.status = "failed" THEN "Failed"
  ELSE IF u.status = "loading" THEN "Loading"
  ELSE IF u.status = "done" THEN "Done"
  ELSE IF u.status = "disabled" THEN "Disabled"
  ELSE IF u.status = "paused" \/ (p # "undefined" /\ u.status = "indexing") THEN "Paused"
  ELSE IF u.status = "indexing" THEN "Indexing"
  ELSE "Nothing"

Display_StatusOnly(u, p) ==
  IF u.status = "failed" THEN "Failed"
  ELSE IF u.status = "loading" THEN "Loading"
  ELSE IF u.status = "done" THEN "Done"
  ELSE IF u.status = "disabled" THEN "Disabled"
  ELSE IF u.status = "paused" THEN "Paused"
  ELSE IF u.status = "indexing" THEN "Indexing"
  ELSE "Nothing"

Display(u, p) ==
  IF u.status = "failed" THEN "Failed"
  ELSE IF u.status = "loading" THEN "Loading"
  ELSE IF u.status = "done" THEN "Done"
  ELSE IF u.status = "disabled" THEN "Disabled"
  ELSE IF u.status = "paused" \/ (Truthy(p) /\ u.status = "indexing") THEN "Paused"
  ELSE IF u.status = "indexing" THEN "Indexing"
  ELSE "Nothing"

\* {hovered ? "Click to pause" : indexingState.desc}
StatusInfoText(u, h) == IF h THEN "Click to pause" ELSE u.desc

\* one evaluation of the component function
Render(prop, p, h) ==
  LET u == indexingStateOf(prop)
      d == Display(u, p)
  IN [display |-> d,
      completed |-> fillPercentage(u),
      percent |-> IF d \in {"Paused", "Indexing"} THEN percentLabel(u) ELSE 0,
      info |-> IF d = "Indexing" THEN StatusInfoText(u, h) ELSE ""]

\* ----------------------------------------------------------- the effects
\* useEffect(() => { if (!initialized) { post(...); initialized = true } }, [])
\* runs after the mount render only; flag is the closure's `initialized`
InitializedEffect_NoDeps(isMount, flag) ==
  IF ~flag
  THEN <<Post("index/indexingProgressBarInitialized", "undefined", "mountEffect")>>
  ELSE <<>>

InitializedEffect(isMount, flag) ==
  IF isMount /\ ~flag
  THEN <<Post("index/indexingProgressBarInitialized", "undefined", "mountEffect")>>
  ELSE <<>>

\* useEffect(() => { if (paused === undefined) return; post(...) }, [paused])
\* runs after the mount render and after a render in which paused changed
PausedEffect_NoDeps(isMount, prev, cur) ==
  IF cur # "undefined"
  THEN <<Post("index/setPaused", cur, "pausedEffect")>>
  ELSE <<>>

PausedEffect_StaleValue(isMount, prev, cur) ==
  IF (isMount \/ prev # cur) /\ cur # "undefined"
  THEN <<Post("index/setPaused", Not(cur), "pausedEffect")>>
  ELSE <<>>

PausedEffect_WhileTrue(isMount, prev, cur) ==
  IF Truthy(cur)
  THEN <<Post("index/setPaused", cur, "pausedEffect")>>
  ELSE <<>>

PausedEffect(isMount, prev, cur) ==
  IF (isMount \/ prev # cur) /\ cur # "undefined"
  THEN <<Post("index/setPaused", cur, "pausedEffect")>>
  ELSE <<>>

\* ------------------------------------------------------ the click handlers
\* if (indexingState.shouldClearIndexes && !isJetBrains())
FailedNeedsConfirm_NoConfirm(u, jb) == FALSE

FailedNeedsConfirm_NoJetBrainsTest(u, jb) == Truthy(u.shouldClearIndexes)

FailedNeedsConfirm_IgnoresFlag(u, jb) == ~jb

FailedNeedsConfirm(u, jb) == Truthy(u.shouldClearIndexes) /\ ~jb

\* if (indexingState.progress < 1 && indexingState.progress >= 0)
ProgressInRange_NoLowerBound(u) == u.progress < Scale

ProgressInRange_Inclusive(u) == u.progress <= Scale /\ u.progress >= 0

ProgressInRange(u) == u.progress < Scale /\ u.progress >= 0

\* function onClick() of the outer <div>
onClick_DefaultToggles(u, p, jb) ==
  IF u.status = "failed" THEN
    IF FailedNeedsConfirm(u, jb)
    THEN [posts |-> <<>>, paused |-> p, dialog |-> TRUE]
    ELSE [posts |-> <<Post("index/forceReIndex", "undefined", "onClick")>>,
          paused |-> p, dialog |-> FALSE]
  ELSE IF u.status \in {"indexing", "paused", "loading"} THEN
    IF ProgressInRange(u)
    THEN [posts |-> <<>>, paused |-> Not(p), dialog |-> FALSE]
    ELSE [posts |-> <<Post("index/forceReIndex", "undefined", "onClick")>>,
          paused |-> p, dialog |-> FALSE]
  ELSE [posts |-> <<Post("index/forceReIndex", "undefined", "onClick")>>,
        paused |-> p, dialog |-> FALSE]

onClick(u, p, jb) ==
  IF u.status = "failed" THEN
    IF FailedNeedsConfirm(u, jb)
    THEN [posts |-> <<>>, paused |-> p, dialog |-> TRUE]
    ELSE [posts |-> <<Post("index/forceReIndex", "undefined", "onClick")>>,
          paused |-> p, dialog |-> FALSE]
  ELSE IF u.status \in {"indexing", "paused"} THEN
    IF ProgressInRange(u)
    THEN [posts |-> <<>>, paused |-> Not(p), dialog |-> FALSE]
    ELSE [posts |-> <<Post("index/forceReIndex", "undefined", "onClick")>>,
          paused |-> p, dialog |-> FALSE]
  ELSE [posts |-> <<Post("index/forceReIndex", "undefined", "onClick")>>,
        paused |-> p, dialog |-> FALSE]

\* the elements a click can land on
Targets == {"row", "StatusDot", "FlexDiv"}

\* the target exists in the rendered tree: the StatusDot with a handler is
\* in the Paused branch, the FlexDiv with a handler in the Indexing branch
TargetRendered(t, v) ==
  /\ t = "StatusDot" => v.display = "Paused"
  /\ t = "FlexDiv" => v.display = "Indexing"

\* onClick={(e) => { ideMessenger.post("index/setPaused", ...) }} of the target
TargetOnClick(t) ==
  IF t = "StatusDot" THEN <<Post("index/setPaused", "false", "StatusDot")>>
  ELSE IF t = "FlexDiv" THEN <<Post("index/setPaused", "true", "FlexDiv")>>
  ELSE <<>>

\* neither target handler calls e.stopPropagation(): the click bubbles to the
\* outer <div onClick={onClick}>
Bubbles(t) == TRUE

\* --------------------------------------------------------------- renders
\* the request the messenger saw last, after posts were posted in order
MostRecent(posts, prev) ==
  IF posts = <<>> THEN prev
  ELSE [action |-> posts[Len(posts)].action, payload |-> posts[Len(posts)].payload]

\* a re-render with the new prop and state, followed by its effects
Rerender(prop, p, h, handlerPosts) ==
  LET flag == FALSE          \* let initialized = false
      ie == InitializedEffect(FALSE, flag)
      pe == PausedEffect(FALSE, paused, p)
  IN /\ initSent < MaxInitSent
     /\ view' = Render(prop, p, h)
     /\ initialized' = (flag \/ ie # <<>>)
     /\ initSent' = initSent + Len(ie)
     /\ sent' = handlerPosts \o ie \o pe
     /\ lastRequest' = MostRecent(handlerPosts \o ie \o pe, lastRequest)

\* the event changed neither prop nor state: React does not re-render
NoRender(handlerPosts) ==
  /\ sent' = handlerPosts
  /\ lastRequest' = MostRecent(handlerPosts, lastRequest)
  /\ UNCHANGED <<view, initialized, initSent>>

\* --------------------------------------------------------------- Init
\* the state after the mount render and its effects
Init ==
  /\ indexingStateProp \in {<<>>} \cup {<<u>> : u \in Updates}
  /\ jetbrains \in BOOLEAN
  /\ pointerOver = FALSE
  /\ paused = "undefined"
  /\ hovered = FALSE
  /\ showDialog = FALSE
  /\ view = Render(indexingStateProp, "undefined", FALSE)
  /\ LET ie == InitializedEffect(TRUE, FALSE)
         pe == PausedEffect(TRUE, "undefined", "undefined")
     IN /\ initialized = (ie # <<>>)
        /\ initSent = Len(ie)
        /\ sent = ie \o pe
        /\ lastRequest = MostRecent(ie \o pe, [action |-> "none", payload |-> "undefined"])
  /\ lastEvent = "mount"

\* --------------------------------------------------------------- actions
\* the parent renders the component with a (new or repeated) indexingState
ReceiveUpdate ==
  \E u \in Updates :
    /\ indexingStateProp' = <<u>>
    /\ Rerender(<<u>>, paused, hovered, <<>>)
    /\ lastEvent' = "update"
    /\ UNCHANGED <<paused, hovered, showDialog, jetbrains, pointerOver>>

\* a click on target t: the target's own handler, then the outer onClick
Click ==
  \E t \in Targets :
    /\ TargetRendered(t, view)
    /\ LET inner == TargetOnClick(t)
           r == IF Bubbles(t) THEN onClick(indexingState, paused, jetbrains)
                ELSE [posts |-> <<>>, paused |-> paused, dialog |-> FALSE]
       IN /\ paused' = r.paused
          /\ showDialog' = (showDialog \/ r.dialog)
          /\ IF r.paused # paused
             THEN Rerender(indexingStateProp, r.paused, hovered, inner \o r.posts)
             ELSE NoRender(inner \o r.posts)
    /\ lastEvent' = "click:" \o t
    /\ UNCHANGED <<indexingStateProp, hovered, jetbrains, pointerOver>>

\* the pointer enters the row; onMouseEnter exists on the Indexing FlexDiv only
MouseEnter ==
  /\ ~pointerOver
  /\ pointerOver' = TRUE
  /\ hovered' = IF view.display = "Indexing" THEN TRUE ELSE hovered
  /\ IF hovered' # hovered
     THEN Rerender(indexingStateProp, paused, hovered', <<>>)
     ELSE NoRender(<<>>)
  /\ lastEvent' = "mouseenter"
  /\ UNCHANGED <<indexingStateProp, paused, showDialog, jetbrains>>

\* the pointer leaves the row; onMouseLeave exists on the Indexing FlexDiv only
MouseLeave ==
  /\ pointerOver
  /\ pointerOver' = FALSE
  /\ hovered' = IF view.display = "Indexing" THEN FALSE ELSE hovered
  /\ IF hovered' # hovered
     THEN Rerender(indexingStateProp, paused, hovered', <<>>)
     ELSE NoRender(<<>>)
  /\ lastEvent' = "mouseleave"
  /\ UNCHANGED <<indexingStateProp, paused, showDialog, jetbrains>>

\* the user presses "Rebuild" in the confirmation dialog: onConfirm runs
Confirm ==
  /\ showDialog
  /\ showDialog' = FALSE
  /\ NoRender(<<Post("index/forceReIndex", "{shouldClearIndexes:true}", "onConfirm")>>)
  /\ lastEvent' = "confirm"
  /\ UNCHANGED <<indexingStateProp, paused, hovered, jetbrains, pointerOver>>

\* the user closes the confirmation dialog without confirming: the dialog was
\* given no callback but onConfirm, so nothing of the component runs
Dismiss ==
  /\ showDialog
  /\ showDialog' = FALSE
  /\ NoRender(<<>>)
  /\ lastEvent' = "dismiss"
  /\ UNCHANGED <<indexingStateProp, paused, hovered, jetbrains, pointerOver>>

Next ==
  \/ ReceiveUpdate
  \/ Click
  \/ MouseEnter
  \/ MouseLeave
  \/ Confirm
  \/ Dismiss

Spec == Init /\ [][Next]_vars

TypeOK ==
  /\ paused \in OptBool
  /\ hovered \in BOOLEAN
  /\ view.display \in {"Failed", "Loading", "Done", "Disabled", "Paused", "Indexing", "Nothing"}
  /\ Len(sent) <= 3

\* ------------------------------------------------------------ properties
Clicks == {"click:row", "click:StatusDot", "click:FlexDiv"}

IsSetPaused(r) == r.action = "index/setPaused"
IsForceReIndex(r) == r.action = "index/forceReIndex"
IsInitialized(r) == r.action = "index/indexingProgressBarInitialized"
FromPausedEffect(r) == r.from = "pausedEffect"

ForcePlain == Post("index/forceReIndex", "undefined", "onClick")
ForceClear == Post("index/forceReIndex", "{shouldClearIndexes:true}", "onConfirm")

\* a click does not change the prop, so after a click indexingState is the
\* update the click was handled with
PauseToggleCase ==
  /\ indexingState.status \in {"indexing", "paused"}
  /\ indexingState.progress >= 0
  /\ indexingState.progress < Scale

\* C1: every click while the status is indexing or paused and 0 <= progress < 1
\* results in exactly one setPaused request, handler posts and the
\* PauseIntent effect's post counted together.
C1_OneSetPausedPerClick ==
  (lastEvent \in Clicks /\ PauseToggleCase)
    => Len(SelectSeq(sent, IsSetPaused)) = 1

\* C2: a click on the status dot of the Paused display sends setPaused(false),
\* leaves PauseIntent unchanged and causes no setPaused request with another
\* payload.
C2_DotClickBypassesIntent ==
  [][lastEvent' = "click:StatusDot" =>
       /\ paused' = paused
       /\ \E i \in 1..Len(sent') : IsSetPaused(sent'[i])
       /\ \A i \in 1..Len(sent') :
            IsSetPaused(sent'[i]) => sent'[i].payload = "false"]_vars

\* C3: exactly one indexingProgressBarInitialized request is sent in a mount
\* lifetime: one by the mount event, none by any later event.
C3_InitializedOnce ==
  /\ initSent = 1
  /\ Len(SelectSeq(sent, IsInitialized)) = (IF lastEvent = "mount" THEN 1 ELSE 0)

\* C3 witness: state and prop changes have re-rendered the component, and the
\* flag of the latest render is false.
C3_Witness ==
  /\ lastEvent # "mount"
  /\ paused # "undefined"
  /\ hovered
  /\ indexingStateProp # <<>>
  /\ ~initialized
  /\ initSent = 1

\* C4: with status done, failed, disabled or loading the display is Done,
\* Failed, Disabled or Loading, whatever PauseIntent and hovered are.
C4_TerminalOverridesIntent ==
  /\ indexingState.status = "done" => view.display = "Done"
  /\ indexingState.status = "failed" => view.display = "Failed"
  /\ indexingState.status = "disabled" => view.display = "Disabled"
  /\ indexingState.status = "loading" => view.display = "Loading"

\* C4 witness: status done while PauseIntent is true displays Done.
C4_Witness ==
  /\ indexingState.status = "done"
  /\ paused = "true"
  /\ hovered
  /\ view.display = "Done"

\* C5: a click on failed with shouldClearIndexes true outside JetBrains opens
\* the dialog and sends nothing; a confirm sends exactly one
\* forceReIndex({shouldClearIndexes: true}); a dismissal sends nothing; a
\* forceReIndex carrying shouldClearIndexes is sent by a confirm only.
C5_DestructiveOnlyOnConfirm ==
  /\ (/\ lastEvent \in Clicks
      /\ indexingState.status = "failed"
      /\ indexingState.shouldClearIndexes = "true"
      /\ ~jetbrains) => (showDialog /\ sent = <<>>)
  /\ lastEvent = "confirm" => sent = <<ForceClear>>
  /\ lastEvent = "dismiss" => sent = <<>>
  /\ \A i \in 1..Len(sent) :
       (IsForceReIndex(sent[i]) /\ sent[i].payload # "undefined")
         => lastEvent = "confirm"
  /\ lastEvent = "mount" => ~showDialog

\* C5 witness: the dialog was opened by a click and confirmed.
C5_Witness ==
  /\ lastEvent = "confirm"
  /\ sent = <<ForceClear>>
  /\ ~jetbrains

\* C6: a click on failed with shouldClearIndexes falsy, or in JetBrains, sends
\* forceReIndex with no payload at once, opens no dialog and leaves
\* PauseIntent unchanged.
C6_FailedDirectReindex ==
  [][(/\ lastEvent' \in Clicks
      /\ indexingState.status = "failed"
      /\ (indexingState.shouldClearIndexes # "true" \/ jetbrains))
     => (/\ sent' = <<ForcePlain>>
         /\ showDialog' = showDialog
         /\ paused' = paused)]_vars

\* C6 witness: in JetBrains a click on a corrupted-index failure re-indexes
\* directly, no dialog open.
C6_Witness ==
  /\ lastEvent = "click:row"
  /\ indexingState.status = "failed"
  /\ indexingState.shouldClearIndexes = "true"
  /\ jetbrains
  /\ sent = <<ForcePlain>>
  /\ ~showDialog

\* C7: a click while the status is indexing or paused and progress is outside
\* [0,1) sends one forceReIndex with no payload and leaves PauseIntent
\* unchanged (the PauseIntent effect posts nothing).
C7_OutOfRangeReindexes ==
  [][(/\ lastEvent' \in Clicks
      /\ indexingState.status \in {"indexing", "paused"}
      /\ (indexingState.progress >= Scale \/ indexingState.progress < 0))
     => (/\ SelectSeq(sent', IsForceReIndex) = <<ForcePlain>>
         /\ SelectSeq(sent', FromPausedEffect) = <<>>
         /\ paused' = paused)]_vars

\* C7 witness: status indexing with progress 1.0 was clicked.
C7_Witness ==
  /\ lastEvent \in Clicks
  /\ indexingState.status = "indexing"
  /\ indexingState.progress = Scale
  /\ ForcePlain \in {sent[i] : i \in 1..Len(sent)}

\* C8: a change of PauseIntent makes the PauseIntent effect post exactly one
\* setPaused with the new value; the effect posts nothing in an event that
\* does not change PauseIntent, and nothing while PauseIntent is unset.
C8_EffectPostsOncePerChange ==
  /\ [](paused = "undefined" => SelectSeq(sent, FromPausedEffect) = <<>>)
  /\ [][IF paused' # paused
        THEN SelectSeq(sent', FromPausedEffect)
               = <<Post("index/setPaused", paused', "pausedEffect")>>
        ELSE SelectSeq(sent', FromPausedEffect) = <<>>]_vars

\* C8 witness: PauseIntent went from true to false and the effect posted
\* setPaused(false).
C8_Witness ==
  /\ lastEvent = "click:row"
  /\ paused = "false"
  /\ sent = <<Post("index/setPaused", "false", "pausedEffect")>>

\* C9: the fill percent is min(100, max(0, progress*100)): 0 below 0, 100
\* above 1, progress*100 in between (-0.2 -> 0, 1.4 -> 100, 0.37 -> 37), so
\* always within [0,100].
C9_FillClamped ==
  LET p == indexingState.progress
      f == view.completed
  IN /\ f >= 0 /\ f <= 100 * Scale
     /\ p < 0 => f = 0
     /\ p > Scale => f = 100 * Scale
     /\ (p >= 0 /\ p <= Scale) => f = 100 * p
     /\ 10 * p = -2 * Scale => f = 0
     /\ 10 * p = 14 * Scale => f = 100 * Scale
     /\ 100 * p = 37 * Scale => f = 37 * Scale

\* C9 witness: after a host update the Indexing display with progress 1.4 shows the label 140%
\* over a fill of 100.
C9_Witness ==
  /\ lastEvent = "update"
  /\ view.display = "Indexing"
  /\ 10 * indexingState.progress = 14 * Scale
  /\ view.percent = 140
  /\ view.completed = 100 * Scale

\* C10: the display is a function of (update, PauseIntent, hovered): Paused
\* exactly when status is paused, or indexing with PauseIntent true; Indexing
\* exactly when status is indexing with PauseIntent unset or false; a click in
\* the Indexing display with 0 <= progress < 1 shows Paused on the next render.
C10_DisplayFunction ==
  /\ [](/\ view = Render(indexingStateProp, paused, hovered)
        /\ view.display = "Paused" <=>
             (\/ indexingState.status = "paused"
              \/ (indexingState.status = "indexing" /\ paused = "true"))
        /\ view.display = "Indexing" <=>
             (indexingState.status = "indexing" /\ paused \in {"undefined", "false"}))
  /\ [][(/\ lastEvent' \in Clicks
         /\ view.display = "Indexing"
         /\ PauseToggleCase)
        => (view'.display = "Paused" /\ indexingStateProp' = indexingStateProp)]_vars

\* C10 witness: a click in the Indexing display showed Paused while the host
\* status is still indexing.
C10_Witness ==
  /\ lastEvent = "click:FlexDiv"
  /\ indexingState.status = "indexing"
  /\ view.display = "Paused"

\* C11: PauseIntent changes only in a click handled while the status is
\* indexing or paused and 0 <= progress < 1; updates, hover events, clicks in
\* other states, confirm and dismiss leave it unchanged.
C11_IntentChangedOnlyByToggleClick ==
  [][paused' # paused => (lastEvent' \in Clicks /\ PauseToggleCase)]_vars

\* C11 witness: a terminal update arrived after the user set the intent, and
\* the intent is still there.
C11_Witness ==
  /\ lastEvent = "update"
  /\ indexingState.status = "done"
  /\ paused = "true"

\* C12: PauseIntent is unset at mount; a toggle maps unset to true, true to
\* false and false to true; once boolean it never returns to unset.
C12_ToggleTreatsUnsetAsNotPaused ==
  /\ [](lastEvent = "mount" => paused = "undefined")
  /\ [][paused # "undefined" => paused' # "undefined"]_vars
  /\ [][paused' # paused =>
         paused' = (IF paused = "true" THEN "false" ELSE "true")]_vars

\* C12 witness: the intent has gone unset -> true -> false.
C12_Witness ==
  /\ lastEvent \in Clicks
  /\ paused = "false"
  /\ lastRequest = [action |-> "index/setPaused", payload |-> "false"]

\* C13: an update posts no request and changes neither PauseIntent nor
\* hovered; delivering the current update again leaves the view as it is; the
\* view is determined by the latest update, PauseIntent and hovered.
C13_UpdatesIdempotent ==
  /\ [](view = Render(indexingStateProp, paused, hovered))
  /\ [][lastEvent' = "update" =>
         /\ sent' = <<>>
         /\ paused' = paused
         /\ hovered' = hovered
         /\ (indexingStateProp' = indexingStateProp => view' = view)]_vars

\* C13 witness: an update was delivered while the intent is pause and the
\* display it gives is Paused.
C13_Witness ==
  /\ lastEvent = "update"
  /\ sent = <<>>
  /\ paused = "true"
  /\ indexingState.status = "indexing"
  /\ view.display = "Paused"

\* C14: a click while the status is not failed, indexing or paused sends one
\* forceReIndex with no payload and nothing else, opens no dialog and leaves
\* PauseIntent unchanged.
C14_OtherStatusReindexes ==
  [][(/\ lastEvent' \in Clicks
      /\ indexingState.status \notin {"failed", "indexing", "paused"})
     => (/\ sent' = <<ForcePlain>>
         /\ showDialog' = showDialog
         /\ paused' = paused)]_vars

\* C14 witness: the Loading display was clicked.
C14_Witness ==
  /\ lastEvent = "click:row"
  /\ indexingState.status = "loading"
  /\ sent = <<ForcePlain>>
  /\ lastRequest = [action |-> "index/forceReIndex", payload |-> "undefined"]

\* C15: whenever the Indexing display is shown its description is "Click to
\* pause" if the pointer is over the element and the update's desc if not.
C15_InfoFollowsPointer ==
  view.display = "Indexing" =>
    view.info = (IF pointerOver THEN "Click to pause" ELSE indexingState.desc)

IsDestructive(r) == IsForceReIndex(r) /\ r.payload # "undefined"

Requests(s) == {s[i] : i \in 1..Len(s)}

\* C16: a forceReIndex({shouldClearIndexes: true}) is emitted only while the
\* current update has status failed with shouldClearIndexes true.
C16_DestructiveOnlyWhileFailed ==
  (\E r \in Requests(sent) : IsDestructive(r))
    => (/\ indexingState.status = "failed"
        /\ indexingState.shouldClearIndexes = "true")

\* C16 amended: the dialog is opened only by a click handled while the update
\* is failed with shouldClearIndexes true outside JetBrains, and a destructive
\* forceReIndex is emitted only by a confirm of the open dialog, whatever the
\* current update is by then.
C16_DestructiveOnlyByConfirmOfFailedDialog ==
  /\ [][(showDialog' /\ ~showDialog) =>
          /\ lastEvent' \in Clicks
          /\ indexingState.status = "failed"
          /\ indexingState.shouldClearIndexes = "true"
          /\ ~jetbrains]_vars
  /\ [][(\E r \in Requests(sent') : IsDestructive(r)) =>
          /\ showDialog
          /\ lastEvent' = "confirm"
          /\ sent' = <<ForceClear>>]_vars

\* C16 witness: the dialog was confirmed after a newer update replaced the
\* failed one.
C16_Witness ==
  /\ lastEvent = "confirm"
  /\ sent = <<ForceClear>>
  /\ indexingState.status = "indexing"

\* C17: the requests of one click are setPaused requests or a forceReIndex
\* request, never both.
C17_OneKindPerClick ==
  lastEvent \in Clicks =>
    ~(/\ \E r \in Requests(sent) : IsSetPaused(r)
      /\ \E r \in Requests(sent) : IsForceReIndex(r))

\* C18: the display is Paused while the status is indexing only when the
\* most recent outgoing request of any kind is setPaused(true).
C18_PausedOnlyWhilePausePending ==
  (indexingState.status = "indexing" /\ view.display = "Paused")
    => lastRequest = [action |-> "index/setPaused", payload |-> "true"]

\* C18 amended: the display is Paused while the status is indexing only when
\* PauseIntent is true, whatever has been requested since; after PauseIntent
\* became true, the host reported done, the user clicked Done (forceReIndex)
\* and the host reports indexing, the display is Paused.
C18_PausedWhileIntentTrue ==
  /\ []((indexingState.status = "indexing" /\ view.display = "Paused")
          => paused = "true")
  /\ [][(/\ lastEvent \in Clicks
         /\ indexingState.status = "done"
         /\ sent = <<ForcePlain>>
         /\ paused = "true"
         /\ lastEvent' = "update"
         /\ indexingState'.status = "indexing")
        => view'.display = "Paused"]_vars

\* C18 witness: Paused is displayed over status indexing while the most
\* recent request is a forceReIndex.
C18_Witness ==
  /\ lastEvent = "update"
  /\ indexingState.status = "indexing"
  /\ view.display = "Paused"
  /\ lastRequest = [action |-> "index/forceReIndex", payload |-> "undefined"]

\* the payload of the last setPaused among the requests s
LastSetPaused(s) ==
  LET sp == SelectSeq(s, IsSetPaused)
  IN IF sp = <<>> THEN "none" ELSE sp[Len(sp)].payload

\* C19: in the Paused display with 0 <= progress < 1 a click on the row
\* (outside the status dot) ends with setPaused(false), for every PauseIntent.
C19_PausedRowClickResumes ==
  [][(/\ lastEvent' = "click:row"
      /\ view.display = "Paused"
      /\ PauseToggleCase)
     => LastSetPaused(sent') = "false"]_vars

\* C19 amended: in the Paused display with 0 <= progress < 1 a click on the
\* row ends with setPaused of the flipped PauseIntent, unset counting as
\* false: setPaused(false) if PauseIntent was true, setPaused(true) if it was
\* unset or false.
C19_PausedRowClickFlipsIntent ==
  [][(/\ lastEvent' = "click:row"
      /\ view.display = "Paused"
      /\ PauseToggleCase)
     => /\ Len(SelectSeq(sent', IsSetPaused)) = 1
        /\ LastSetPaused(sent') = (IF paused = "true" THEN "false" ELSE "true")]_vars

\* C19 witness: a row click on a host-initiated pause (PauseIntent unset)
\* requested pause again.
C19_Witness ==
  /\ lastEvent = "click:row"
  /\ indexingState.status = "paused"
  /\ view.display = "Paused"
  /\ paused = "true"
  /\ sent = <<Post("index/setPaused", "true", "pausedEffect")>>
====
